---- MODULE Spec2Model ----
(***************************************************************************)
(* WhatsApp OTP login: the send-otp and verify-otp request handlers, the   *)
(* otp_storage table with its stored procedures (create_otp_entry,         *)
(* verify_otp, cleanup_expired_otps, check_otp_rate_limit) and the         *)
(* identity directory the verify handler mints sessions from.              *)
(*                                                                         *)
(* Every stored procedure runs as one READ COMMITTED transaction: NOW() is *)
(* the transaction's start time, each statement reads what is committed    *)
(* when it starts, a DELETE or UPDATE waits for a row another transaction  *)
(* has written, and the writes become visible at commit.  Every await of a *)
(* handler is a point where other requests interleave.                     *)
(***************************************************************************)
EXTENDS Integers, Sequences, FiniteSets, TLC

\* ------------------------------------------------------------------ bounds

\* The clock counts thirds of a second, so that elapsed times fall on both
\* sides of the half second at which ::INTEGER rounds, and never on it.
TicksPerSecond == 3

\* How many times the clock advances in one behaviour.
MaxAdvances == 2

\* Requests that may start in a behaviour with overlapping requests.
MaxRequests == 3

\* Requests that may start in a behaviour with requests for two phones.
PhonesRequests == 2

\* Row identifiers (gen_random_uuid() never repeats; the smallest unused one
\* of this pool is drawn).
NumIds == 6

\* Math.random() is drawn as k / RandDen.
RandDen == 1000

\* ------------------------------------------------------- program constants

WindowSeconds == 15
ExpiryMinutes == 5
ExpiresIn == 300
MaxAttempts == 5
CodeBase == 100000
CodeSpan == 900000

Procs == {"p1", "p2"}

\* Numerators of the Math.random() draws.
RandNums == {0, RandDen - 1}

\* ---------------------------------------------------------------- strings

Digit == {"0", "1", "2", "3", "4", "5", "6", "7", "8", "9"}

DigitChar(d) ==
  CASE d = 0 -> "0" [] d = 1 -> "1" [] d = 2 -> "2" [] d = 3 -> "3"
    [] d = 4 -> "4" [] d = 5 -> "5" [] d = 6 -> "6" [] d = 7 -> "7"
    [] d = 8 -> "8" [] d = 9 -> "9"

\* Number.prototype.toString() of a non-negative integer.
RECURSIVE toString(_)
toString(n) ==
  IF n < 10 THEN <<DigitChar(n)>>
  ELSE Append(toString(n \div 10), DigitChar(n % 10))

\* Math.floor(Math.random() * 1000000): six digits only when the draw is
\* at least 0.1.
Mut_GenerateCode(k) == (k * (CodeBase + CodeSpan)) \div RandDen

\* Math.floor(100000 + Math.random() * 900000) with Math.random() = k / RandDen.
GenerateCode(k) == (CodeBase * RandDen + k * CodeSpan) \div RandDen

\* /^\+1\d{10}$/
MatchUS(s) ==
  /\ Len(s) = 12
  /\ s[1] = "+" /\ s[2] = "1"
  /\ \A i \in 3..12 : s[i] \in Digit

\* /^\+91\d{10}$/
MatchIN(s) ==
  /\ Len(s) = 13
  /\ s[1] = "+" /\ s[2] = "9" /\ s[3] = "1"
  /\ \A i \in 4..13 : s[i] \in Digit

isValidFormat(s) == MatchUS(s) \/ MatchIN(s)

\* A field of req.body: absent, a number (s: its decimal digits), or a string
\* (s: its characters).
Undefined == [t |-> "undefined", s |-> <<>>]
Num(s) == [t |-> "number", s |-> s]
Str(s) == [t |-> "string", s |-> s]

\* What stands for the fields of a request whose req.body is itself undefined
\* or null: const { .. } = req.body throws a TypeError.
NoBody == [t |-> "nobody", s |-> <<>>]

\* JavaScript truthiness of a body field.
Truthy(v) ==
  \/ v.t = "number" /\ v.s # <<"0">>
  \/ v.t = "string" /\ v.s # <<>>

PhoneA == <<"+", "1", "5", "5", "5", "1", "2", "3", "4", "5", "6", "7">>
PhoneB == <<"+", "9", "1", "9", "8", "7", "6", "5", "4", "3", "2", "1", "0">>
PhoneNoPlus == <<"1", "5", "5", "5", "1", "2", "3", "4", "5", "6", "7">>
PhoneShort == <<"+", "1", "5", "5", "5">>
PhoneLong == <<"+", "1", "5", "5", "5", "1", "2", "3", "4", "5", "6", "7", "8">>

Phones == {PhoneA, PhoneB}

WrongCode == <<"0", "0", "0", "0", "0", "0">>

NotifyOutcomes == {"sent", "unconfigured", "http_error", "threw"}

\* Temporary passwords (Math.random().toString(36) pieces + "Aa1!").
Passwords == {"pwA", "pwB"}
NoPassword == "none"

\* What the environment supplies when requests run one at a time: every
\* kind of request body (none at all, a field absent, a number, a string),
\* both ends of the generator's range, a clock that
\* moves by a third of a second, by 14 1/3 seconds or by 5 minutes, every
\* outcome of the notifier.
SerialInputs ==
  [methods |-> {"POST", "GET"},
   sendPhones |-> {Str(PhoneA), Str(PhoneNoPlus), Str(PhoneShort), Str(PhoneLong),
                   Str(<<>>), Undefined, Num(PhoneNoPlus), NoBody},
   verifyPhones |-> {Str(PhoneA), Undefined, NoBody},
   otps |-> {Str(toString(GenerateCode(k))) : k \in RandNums}
              \cup {Str(WrongCode), Str(<<"1", "2">>), Undefined,
                    Num(toString(GenerateCode(0)))},
   rands |-> RandNums,
   advances |-> {1, 14 * TicksPerSecond + 1, ExpiryMinutes * 60 * TicksPerSecond},
   notify |-> NotifyOutcomes]

\* What it supplies when requests overlap: well-formed requests for PhoneA,
\* the code of the record at hand or a wrong one, a new code different from
\* it, a clock that moves past the expiry.
OverlapInputs ==
  [methods |-> {"POST"},
   sendPhones |-> {Str(PhoneA)},
   verifyPhones |-> {Str(PhoneA)},
   otps |-> {Str(toString(GenerateCode(0))), Str(WrongCode)},
   rands |-> {RandDen - 1},
   advances |-> {ExpiryMinutes * 60 * TicksPerSecond + 1},
   notify |-> {"sent", "threw"}]

\* What it supplies when overlapping requests name two phones: well-formed
\* requests for PhoneA and PhoneB, the code of the records at hand (both
\* phones hold the same code) or a wrong one, a new code different from it,
\* a clock that moves past the expiry.
PhonesInputs ==
  [methods |-> {"POST"},
   sendPhones |-> {Str(PhoneA), Str(PhoneB)},
   verifyPhones |-> {Str(PhoneA), Str(PhoneB)},
   otps |-> {Str(toString(GenerateCode(0))), Str(WrongCode)},
   rands |-> {RandDen - 1},
   advances |-> {ExpiryMinutes * 60 * TicksPerSecond + 1},
   notify |-> {"sent"}]

\* ------------------------------------------------------------------ state

VARIABLES
  now,          \* the clock, in ticks
  advances,     \* how many times the clock advanced
  otp_storage,  \* committed rows of public.otp_storage
  users,        \* the identity directory (auth.users)
  pc,           \* per request slot: the await the handler is suspended at
  loc,          \* per request slot: the handler's locals
  tx,           \* per request slot: the open transaction of its rpc
  last,         \* per phone: the outcome of the last procedure that committed
  run,          \* per phone: consecutive wrong verifies since the last issue
  issued,       \* per phone: code and creation time of the last record created
  overlap,      \* whether requests may overlap, or run one at a time
  phones,       \* the phone numbers the requests name
  budget        \* requests that may still start (-1: any number)

vars ==
  <<now, advances, otp_storage, users, pc, loc, tx, last, run, issued, overlap,
    phones, budget>>

Ids == 1..NumIds

NoResp == [status |-> 0, msg |-> "", n |-> -1, session |-> {}]
Resp(status, msg, n, session) ==
  [status |-> status, msg |-> msg, n |-> n, session |-> session]

NoResult == [set |-> FALSE, error |-> FALSE, success |-> FALSE, msg |-> "", n |-> 0]
Result(success, msg, n) ==
  [set |-> TRUE, error |-> FALSE, success |-> success, msg |-> msg, n |-> n]
RpcError == [set |-> TRUE, error |-> TRUE, success |-> FALSE, msg |-> "", n |-> 0]

\* What is remembered of a procedure's outcome, and of what its handler did
\* next: for an issue what the notifier returned, for a successful verify
\* the status the mint steps ended with.
Event(op, result) ==
  [op |-> op, success |-> result.success, msg |-> result.msg, notify |-> "none",
   status |-> 0]
NoEvent ==
  [op |-> "none", success |-> FALSE, msg |-> "", notify |-> "none", status |-> 0]

\* req.method and the fields of req.body.
NoReq == [method |-> "", phoneNumber |-> Undefined, otp |-> Undefined]
Req(method, phoneNumber, otp) ==
  [method |-> method, phoneNumber |-> phoneNumber, otp |-> otp]

NoLoc ==
  [op |-> "none", req |-> NoReq, phone |-> <<>>, otp |-> <<>>, code |-> <<>>,
   t |-> 0, result |-> NoResult, otpId |-> 0, notify |-> "none",
   existing |-> {}, userId |-> 0, pw |-> NoPassword, resp |-> NoResp]

NoTx ==
  [now |-> 0, del |-> {}, bump |-> {}, ins |-> {}, targets |-> {},
   v_otp |-> {}]

\* The state after deployment: an empty table, an empty directory, no
\* request in flight.
Fresh ==
  /\ now = 0
  /\ advances = 0
  /\ otp_storage = {}
  /\ users = {}
  /\ pc = [p \in Procs |-> "idle"]
  /\ loc = [p \in Procs |-> NoLoc]
  /\ tx = [p \in Procs |-> NoTx]
  /\ last = [ph \in Phones |-> NoEvent]
  /\ run = [ph \in Phones |-> -1]
  /\ issued = [ph \in Phones |-> {}]

\* Requests one at a time, any number of them.
InitSerial ==
  /\ Fresh
  /\ overlap = FALSE
  /\ phones = {PhoneA}
  /\ budget = -1

\* ------------------------------------------------------------ transactions

Other(p) == Procs \ {p}

\* Rows some other open transaction has updated or deleted (row locks).
LockedByOther(p, ids) ==
  \E q \in Other(p) : ids \cap (tx[q].del \cup tx[q].bump) # {}

\* An UPDATE that counts an attempt twice.
MutBumped(r) == [r EXCEPT !.attempts = r.attempts + 2]

\* UPDATE otp_storage SET attempts = attempts + 1
Bumped(r) == [r EXCEPT !.attempts = r.attempts + 1]

\* What a statement of p's transaction reads: the committed rows, with p's
\* own writes applied.
Snapshot(p) ==
  {IF r.id \in tx[p].bump THEN Bumped(r) ELSE r :
     r \in {c \in otp_storage : c.id \notin tx[p].del}} \cup tx[p].ins

\* The table after p's transaction commits.
Committed(p) == Snapshot(p)

RowIds(rows) == {r.id : r \in rows}

\* An rpc call opens a transaction; NOW() is its start time throughout.
Begin(p) == tx' = [tx EXCEPT ![p] = [NoTx EXCEPT !.now = now]]
End(p) == tx' = [tx EXCEPT ![p] = NoTx]

\* The otpId a send handler holds (const otpId = otpData).
HeldOtpId(q) ==
  IF loc[q].op = "send" /\ (pc[q] = "notify" \/ loc[q].notify # "none")
       /\ ~loc[q].result.error
    THEN {loc[q].result.n} ELSE {}

\* The ids some row, transaction or handler holds.
UsedIds ==
  RowIds(otp_storage)
    \cup UNION {RowIds(tx[q].ins) \cup RowIds(tx[q].v_otp) \cup tx[q].targets
                  \cup {loc[q].otpId} \cup HeldOtpId(q) : q \in Procs}

\* gen_random_uuid()
FreshId == CHOOSE i \in Ids \ UsedIds : \A j \in Ids \ UsedIds : i <= j



\* ------------------------------------------------------------------ clock

Advance(d) ==
  /\ advances < MaxAdvances
  /\ now' = now + d
  /\ advances' = advances + 1
  /\ UNCHANGED <<otp_storage, users, pc, loc, tx, last, run, issued, overlap, phones,
     budget>>

\* ------------------------------------------------------------- scheduling

Quiet(p) == \A q \in Other(p) : pc[q] = "idle"

\* Slot p takes a request.
Start(p) ==
  /\ pc[p] = "idle"
  /\ overlap \/ Quiet(p)
  /\ budget # 0
  /\ budget' = IF budget > 0 THEN budget - 1 ELSE budget
  /\ UNCHANGED <<overlap, phones>>

\* ------------------------------------------------------------ send-otp.ts

\* The handler returns res.status(..).json(..); its other locals die.
Respond(p, r) ==
  /\ pc' = [pc EXCEPT ![p] = "done"]
  /\ loc' = [loc EXCEPT ![p].resp = r, ![p].otp = <<>>, ![p].code = <<>>,
                        ![p].pw = NoPassword]

\* POST /otp/send up to the first await (the rate-limit rpc).
SendRequest(p, method, phoneNumber) ==
  /\ Start(p)
  /\ IF method # "POST" THEN
       /\ pc' = [pc EXCEPT ![p] = "done"]
       /\ loc' = [loc EXCEPT ![p] = [NoLoc EXCEPT !.op = "send",
                    !.req = Req(method, phoneNumber, Undefined),
                    !.resp = Resp(405, "Method not allowed", -1, {})]]
       /\ UNCHANGED tx
     ELSE IF phoneNumber = NoBody THEN
       \* const { phoneNumber } = req.body throws inside the try: the catch
       /\ pc' = [pc EXCEPT ![p] = "done"]
       /\ loc' = [loc EXCEPT ![p] = [NoLoc EXCEPT !.op = "send",
                    !.req = Req(method, phoneNumber, Undefined),
                    !.resp = Resp(500, "An unexpected error occurred", -1, {})]]
       /\ UNCHANGED tx
     ELSE IF ~Truthy(phoneNumber) \/ phoneNumber.t # "string" THEN
       /\ pc' = [pc EXCEPT ![p] = "done"]
       /\ loc' = [loc EXCEPT ![p] = [NoLoc EXCEPT !.op = "send",
                    !.req = Req(method, phoneNumber, Undefined),
                    !.resp = Resp(400, "Phone number is required", -1, {})]]
       /\ UNCHANGED tx
     ELSE IF phoneNumber.s[1] # "+" THEN
       /\ pc' = [pc EXCEPT ![p] = "done"]
       /\ loc' = [loc EXCEPT ![p] = [NoLoc EXCEPT !.op = "send",
                    !.req = Req(method, phoneNumber, Undefined),
                    !.resp = Resp(400, "Phone number must include country code (e.g., +91 or +1)", -1, {})]]
       /\ UNCHANGED tx
     ELSE IF ~isValidFormat(phoneNumber.s) THEN
       /\ pc' = [pc EXCEPT ![p] = "done"]
       /\ loc' = [loc EXCEPT ![p] = [NoLoc EXCEPT !.op = "send",
                    !.req = Req(method, phoneNumber, Undefined),
                    !.resp = Resp(400, "Invalid phone number format. Must be +1 or +91 followed by 10 digits.", -1, {})]]
       /\ UNCHANGED tx
     ELSE
       /\ pc' = [pc EXCEPT ![p] = "rl_select"]
       /\ loc' = [loc EXCEPT ![p] = [NoLoc EXCEPT !.op = "send",
                    !.req = Req(method, phoneNumber, Undefined),
                    !.phone = phoneNumber.s]]
       /\ Begin(p)
  /\ UNCHANGED <<now, advances, otp_storage, users, last, run, issued>>

\* EXTRACT(EPOCH FROM interval)::INTEGER: seconds, rounded to the nearest.
RoundSeconds(ticks) ==
  IF ticks >= 0
    THEN (2 * ticks + TicksPerSecond) \div (2 * TicksPerSecond)
    ELSE 0 - ((2 * (0 - ticks) + TicksPerSecond) \div (2 * TicksPerSecond))

\* SELECT created_at ... ORDER BY created_at DESC LIMIT 1
LastCreated(rows) ==
  CHOOSE t \in {r.created_at : r \in rows} :
    \A r \in rows : r.created_at <= t

\* A check_otp_rate_limit whose SELECT has no WHERE phone_number = ...
Mut_check_otp_rate_limit(rows, phone, window, tnow) ==
  LET v_wait == window - RoundSeconds(tnow - LastCreated(rows))
  IN  IF rows = {} THEN Result(TRUE, "", 0)
      ELSE IF v_wait > 0 THEN Result(FALSE, "", v_wait)
      ELSE Result(TRUE, "", 0)

\* check_otp_rate_limit(p_phone_number, p_window_seconds), read over `rows`.
check_otp_rate_limit(rows, phone, window, tnow) ==
  LET mine == {r \in rows : r.phone_number = phone}
      v_wait == window - RoundSeconds(tnow - LastCreated(mine))
  IN  IF mine = {} THEN Result(TRUE, "", 0)
      ELSE IF v_wait > 0 THEN Result(FALSE, "", v_wait)
      ELSE Result(TRUE, "", 0)

\* The rate-limit rpc runs and returns.
RateLimitSelect(p) ==
  /\ pc[p] = "rl_select"
  /\ pc' = [pc EXCEPT ![p] = "rl_ret"]
  /\ loc' = [loc EXCEPT ![p].result =
               check_otp_rate_limit(Snapshot(p), loc[p].phone, WindowSeconds,
                                    tx[p].now),
                        ![p].t = tx[p].now]
  /\ End(p)
  /\ UNCHANGED <<now, advances, otp_storage, users, last, run, issued, overlap, phones,
     budget>>

\* An awaited rpc of the send handler rejects (the request never reached the
\* database): the catch answers.
SendRpcReject(p) ==
  /\ pc[p] \in {"rl_select", "c_delete_scan"}
  /\ End(p)
  /\ Respond(p, Resp(500, "An unexpected error occurred", -1, {}))
  /\ UNCHANGED <<now, advances, otp_storage, users, last, run, issued, overlap, phones,
     budget>>

\* The rate-limit rpc fails (rateLimitError).
RateLimitError(p) ==
  /\ pc[p] = "rl_select"
  /\ pc' = [pc EXCEPT ![p] = "rl_ret"]
  /\ loc' = [loc EXCEPT ![p].result = RpcError]
  /\ End(p)
  /\ UNCHANGED <<now, advances, otp_storage, users, last, run, issued, overlap, phones,
     budget>>

\* STEP 1 with a denial that also clears the phone's records.
MutSendAfterRateLimit(p, k) ==
  /\ pc[p] = "rl_ret"
  /\ IF loc[p].result.error THEN
       /\ Respond(p, Resp(500, "Failed to check rate limit", -1, {}))
       /\ UNCHANGED <<tx, otp_storage>>
     ELSE IF ~loc[p].result.success THEN
       /\ Respond(p, Resp(429, "Too many OTP requests", loc[p].result.n, {}))
       /\ otp_storage' = {r \in otp_storage : r.phone_number # loc[p].phone}
       /\ UNCHANGED tx
     ELSE
       /\ pc' = [pc EXCEPT ![p] = "c_delete_scan"]
       /\ loc' = [loc EXCEPT ![p].code = toString(GenerateCode(k)),
                             ![p].result = NoResult]
       /\ Begin(p)
       /\ UNCHANGED otp_storage
  /\ UNCHANGED <<now, advances, users, last, run, issued, overlap, phones,
     budget>>

\* STEP 1 (after the rpc), STEP 2, and the call of create_otp_entry.
SendAfterRateLimit(p, k) ==
  /\ pc[p] = "rl_ret"
  /\ IF loc[p].result.error THEN
       /\ Respond(p, Resp(500, "Failed to check rate limit", -1, {}))
       /\ UNCHANGED tx
     ELSE IF ~loc[p].result.success THEN
       /\ Respond(p, Resp(429, "Too many OTP requests", loc[p].result.n, {}))
       /\ UNCHANGED tx
     ELSE
       /\ pc' = [pc EXCEPT ![p] = "c_delete_scan"]
       /\ loc' = [loc EXCEPT ![p].code = toString(GenerateCode(k)),
                             ![p].result = NoResult]
       /\ Begin(p)
  /\ UNCHANGED <<now, advances, otp_storage, users, last, run, issued, overlap, phones,
     budget>>

\* create_otp_entry: DELETE ... WHERE phone_number = p_phone_number (the rows
\* the statement's snapshot holds).
CreateDeleteScan(p) ==
  /\ pc[p] = "c_delete_scan"
  /\ pc' = [pc EXCEPT ![p] = "c_delete"]
  /\ tx' = [tx EXCEPT ![p].targets =
              RowIds({r \in Snapshot(p) : r.phone_number = loc[p].phone})]
  /\ UNCHANGED <<now, advances, otp_storage, users, loc, last, run, issued, overlap, phones,
     budget>>

\* ... the rows are deleted once no other transaction holds them; a row that
\* transaction deleted is skipped.
CreateDeleteApply(p) ==
  /\ pc[p] = "c_delete"
  /\ ~LockedByOther(p, tx[p].targets)
  /\ pc' = [pc EXCEPT ![p] = "c_insert"]
  /\ tx' = [tx EXCEPT ![p].del = tx[p].targets \cap RowIds(otp_storage),
                      ![p].targets = {}]
  /\ UNCHANGED <<now, advances, otp_storage, users, loc, last, run, issued, overlap, phones,
     budget>>

\* CONSTRAINT unique_active_otp UNIQUE (phone_number, verified): the rows
\* that collide with a new (phone, FALSE) row.
Mut_unique_active_otp(rows, phone) == {}

unique_active_otp(rows, phone) ==
  {r \in rows : r.phone_number = phone /\ r.verified = FALSE}

\* NOW() + (p_expiry_minutes || ' minutes')::INTERVAL
ExpiresAt(tnow) == tnow + ExpiryMinutes * 60 * TicksPerSecond

\* An INSERT that takes p_expiry_minutes for seconds.
MutNewRow(p) ==
  [id |-> FreshId, phone_number |-> loc[p].phone, otp_code |-> loc[p].code,
   created_at |-> tx[p].now,
   expires_at |-> tx[p].now + ExpiryMinutes * TicksPerSecond,
   attempts |-> 0, verified |-> FALSE]

\* INSERT INTO otp_storage (phone_number, otp_code, expires_at, attempts,
\* verified) VALUES (.., .., NOW() + minutes, 0, FALSE); id and created_at
\* take their defaults.
NewRow(p) ==
  [id |-> FreshId, phone_number |-> loc[p].phone, otp_code |-> loc[p].code,
   created_at |-> tx[p].now, expires_at |-> ExpiresAt(tx[p].now),
   attempts |-> 0, verified |-> FALSE]

\* create_otp_entry: INSERT.  The unique index makes it wait for a
\* transaction that is inserting or removing a colliding row, and fail when a
\* colliding row is committed.
CreateInsert(p) ==
  LET collide ==
        unique_active_otp({r \in otp_storage : r.id \notin tx[p].del},
                          loc[p].phone)
  IN
  /\ pc[p] = "c_insert"
  /\ ~LockedByOther(p, RowIds(collide))
  /\ \A q \in Other(p) : unique_active_otp(tx[q].ins, loc[p].phone) = {}
  /\ IF collide # {} THEN
       /\ End(p)
       /\ pc' = [pc EXCEPT ![p] = "done"]
       /\ loc' = [loc EXCEPT ![p].result = RpcError, ![p].code = <<>>,
                    ![p].resp = Resp(500, "Failed to create OTP", -1, {})]
     ELSE
       /\ tx' = [tx EXCEPT ![p].ins = {NewRow(p)}]
       /\ pc' = [pc EXCEPT ![p] = "c_commit"]
       /\ UNCHANGED loc
  /\ UNCHANGED <<now, advances, otp_storage, users, last, run, issued, overlap, phones,
     budget>>

\* create_otp_entry returns and commits; the handler goes on to STEP 4.
CreateCommit(p) ==
  LET row == CHOOSE r \in tx[p].ins : TRUE
  IN
  /\ pc[p] = "c_commit"
  /\ otp_storage' = Committed(p)
  /\ End(p)
  /\ pc' = [pc EXCEPT ![p] = "notify"]
  /\ loc' = [loc EXCEPT ![p].result = Result(TRUE, "", row.id)]
  /\ last' = [last EXCEPT ![loc[p].phone] = Event("issue", Result(TRUE, "", 0))]
  /\ run' = [run EXCEPT ![loc[p].phone] = 0]
  /\ issued' = [issued EXCEPT ![loc[p].phone] =
                  {[otp_code |-> row.otp_code, created_at |-> row.created_at]}]
  /\ UNCHANGED <<now, advances, users, overlap, phones,
     budget>>

\* An otpError the handler does not look at: it goes on to STEP 4.
MutCreateError(p) ==
  /\ pc[p] = "c_delete_scan"
  /\ End(p)
  /\ pc' = [pc EXCEPT ![p] = "notify"]
  /\ loc' = [loc EXCEPT ![p].result = RpcError]
  /\ UNCHANGED <<now, advances, otp_storage, users, last, run, issued, overlap, phones,
     budget>>

\* create_otp_entry fails for a reason of the infrastructure (otpError).
CreateError(p) ==
  /\ pc[p] = "c_delete_scan"
  /\ End(p)
  /\ pc' = [pc EXCEPT ![p] = "done"]
  /\ loc' = [loc EXCEPT ![p].result = RpcError, ![p].code = <<>>,
               ![p].resp = Resp(500, "Failed to create OTP", -1, {})]
  /\ UNCHANGED <<now, advances, otp_storage, users, last, run, issued, overlap, phones,
     budget>>

\* The issue that is the last procedure committed for p's phone is p's own.
OwnIssue(p) ==
  /\ last[loc[p].phone].op = "issue"
  /\ \E i \in issued[loc[p].phone] : i.otp_code = loc[p].code

\* STEP 4 with the otpId put into the response.
MutSendSuccess(otpId) == Resp(200, "OTP sent successfully", otpId, {})

\* res.status(200).json({success: true, message: 'OTP sent successfully',
\* expiresIn: 300}), otpId being create_otp_entry's return value.
SendSuccess(otpId) == Resp(200, "OTP sent successfully", ExpiresIn, {})

\* STEP 4 with a notifier failure failing the request.
MutNotify(p, outcome) ==
  /\ pc[p] = "notify"
  /\ pc' = [pc EXCEPT ![p] = "done"]
  /\ loc' = [loc EXCEPT ![p].notify = outcome, ![p].code = <<>>,
               ![p].resp = IF outcome = "sent"
                             THEN Resp(200, "OTP sent successfully", ExpiresIn, {})
                             ELSE Resp(500, "An unexpected error occurred", -1, {})]
  /\ last' = IF OwnIssue(p)
               THEN [last EXCEPT ![loc[p].phone].notify = outcome] ELSE last
  /\ UNCHANGED <<now, advances, otp_storage, users, tx, run, issued, overlap, phones,
     budget>>

\* STEP 4: sendWhatsAppOTP returns {success} (it catches what it throws), and
\* the handler answers 200 either way.
Notify(p, outcome) ==
  /\ pc[p] = "notify"
  /\ pc' = [pc EXCEPT ![p] = "done"]
  /\ loc' = [loc EXCEPT ![p].notify = outcome, ![p].code = <<>>,
               ![p].resp = SendSuccess(loc[p].result.n)]
  /\ last' = IF OwnIssue(p)
               THEN [last EXCEPT ![loc[p].phone].notify = outcome] ELSE last
  /\ UNCHANGED <<now, advances, otp_storage, users, tx, run, issued, overlap, phones,
     budget>>

\* The response has been sent, or the handler has thrown; the slot takes the
\* next request.
Finish(p) ==
  /\ pc[p] \in {"done", "thrown"}
  /\ pc' = [pc EXCEPT ![p] = "idle"]
  /\ loc' = [loc EXCEPT ![p] = NoLoc]
  /\ UNCHANGED <<now, advances, otp_storage, users, tx, last, run, issued, overlap, phones,
     budget>>

\* ---------------------------------------------------------- verify-otp.ts

\* POST /otp/verify up to the first await (the verify_otp rpc).
VerifyRequest(p, method, phoneNumber, otp) ==
  /\ Start(p)
  /\ IF method # "POST" THEN
       /\ pc' = [pc EXCEPT ![p] = "done"]
       /\ loc' = [loc EXCEPT ![p] = [NoLoc EXCEPT !.op = "verify",
                    !.req = Req(method, phoneNumber, otp),
                    !.resp = Resp(405, "Method not allowed", -1, {})]]
       /\ UNCHANGED tx
     ELSE IF phoneNumber = NoBody THEN
       \* const { phoneNumber, otp } = req.body throws outside the try: the
       \* handler's promise rejects and no response is sent
       /\ pc' = [pc EXCEPT ![p] = "thrown"]
       /\ loc' = [loc EXCEPT ![p] = [NoLoc EXCEPT !.op = "verify",
                    !.req = Req(method, NoBody, NoBody)]]
       /\ UNCHANGED tx
     ELSE IF ~Truthy(phoneNumber) \/ ~Truthy(otp) THEN
       /\ pc' = [pc EXCEPT ![p] = "done"]
       /\ loc' = [loc EXCEPT ![p] = [NoLoc EXCEPT !.op = "verify",
                    !.req = Req(method, phoneNumber, otp),
                    !.resp = Resp(400, "Phone number and OTP are required", -1, {})]]
       /\ UNCHANGED tx
     ELSE
       /\ pc' = [pc EXCEPT ![p] = "v_select"]
       /\ loc' = [loc EXCEPT ![p] = [NoLoc EXCEPT !.op = "verify",
                    !.req = Req(method, phoneNumber, otp),
                    !.phone = phoneNumber.s, !.otp = otp.s]]
       /\ Begin(p)
  /\ UNCHANGED <<now, advances, otp_storage, users, last, run, issued>>

\* The verify_otp rpc fails (verifyError).
VerifyError(p) ==
  /\ pc[p] = "v_select"
  /\ End(p)
  /\ loc' = [loc EXCEPT ![p].result = RpcError, ![p].otp = <<>>,
               ![p].resp = Resp(500, "Database error during verification", -1, {})]
  /\ pc' = [pc EXCEPT ![p] = "done"]
  /\ UNCHANGED <<now, advances, otp_storage, users, last, run, issued, overlap, phones,
     budget>>

\* A verify_otp that leaves expiry to the sweep.
MutIsExpiredLeftToSweep(row, tnow) == FALSE

\* IF v_otp.expires_at < NOW()
MutIsExpired(row, tnow) == row.expires_at <= tnow

IsExpired(row, tnow) == row.expires_at < tnow

\* IF v_otp.attempts >= 5
MutMaxReached(row) == row.attempts > MaxAttempts

MaxReached(row) == row.attempts >= MaxAttempts

\* The remaining attempts computed from the count before its increment.
MutRemaining(row) == MaxAttempts - row.attempts

\* v_remaining := 5 - (v_otp.attempts + 1)
Remaining(row) == MaxAttempts - (row.attempts + 1)

\* IF v_otp.otp_code = p_otp_code
CodeMatches(row, otp) == row.otp_code = otp

\* verify_otp: SELECT * INTO v_otp ... WHERE phone_number = p AND verified =
\* FALSE ORDER BY created_at DESC LIMIT 1, and the checks up to the next
\* statement.
VerifySelect(p) ==
  LET rows == {r \in Snapshot(p) :
                 r.phone_number = loc[p].phone /\ r.verified = FALSE}
  IN
  /\ pc[p] = "v_select"
  /\ IF rows = {} THEN
       /\ pc' = [pc EXCEPT ![p] = "v_commit"]
       /\ loc' = [loc EXCEPT ![p].result =
                    Result(FALSE, "No OTP found for this phone number", 0)]
       /\ UNCHANGED tx
     ELSE
       \E v \in rows :
         /\ \A r \in rows : r.created_at <= v.created_at
         /\ tx' = [tx EXCEPT ![p].v_otp = {v}]
         /\ pc' = [pc EXCEPT ![p] =
                     IF IsExpired(v, tx[p].now) THEN "v_expired"
                     ELSE IF MaxReached(v) THEN "v_max"
                     ELSE "v_update"]
         /\ UNCHANGED loc
  /\ UNCHANGED <<now, advances, otp_storage, users, last, run, issued, overlap, phones,
     budget>>

v_otp(p) == CHOOSE v \in tx[p].v_otp : TRUE

\* A statement ... WHERE id = v_otp.id waits while another transaction holds
\* the row, then acts on it if it still exists.  (The row was read by this
\* transaction's SELECT and ids are never reused, so the statement's own
\* snapshot cannot hold anything else.)
MayApply(p) == ~LockedByOther(p, {v_otp(p).id})

Effective(p) == {v_otp(p).id} \cap RowIds(otp_storage)

\* DELETE FROM otp_storage WHERE id = v_otp.id (expired)
VerifyDeleteExpired(p) ==
  /\ pc[p] = "v_expired"
  /\ MayApply(p)
  /\ tx' = [tx EXCEPT ![p].del = @ \cup Effective(p)]
  /\ loc' = [loc EXCEPT ![p].result = Result(FALSE, "OTP has expired", 0)]
  /\ pc' = [pc EXCEPT ![p] = "v_commit"]
  /\ UNCHANGED <<now, advances, otp_storage, users, last, run, issued, overlap, phones,
     budget>>

\* The max-attempts branch without its DELETE.
MutVerifyDeleteMax(p) ==
  /\ pc[p] = "v_max"
  /\ MayApply(p)
  /\ loc' = [loc EXCEPT ![p].result =
               Result(FALSE, "Maximum verification attempts exceeded", 0)]
  /\ pc' = [pc EXCEPT ![p] = "v_commit"]
  /\ UNCHANGED <<now, advances, otp_storage, users, tx, last, run, issued, overlap, phones,
     budget>>

\* DELETE FROM otp_storage WHERE id = v_otp.id (max attempts)
VerifyDeleteMax(p) ==
  /\ pc[p] = "v_max"
  /\ MayApply(p)
  /\ tx' = [tx EXCEPT ![p].del = @ \cup Effective(p)]
  /\ loc' = [loc EXCEPT ![p].result =
               Result(FALSE, "Maximum verification attempts exceeded", 0)]
  /\ pc' = [pc EXCEPT ![p] = "v_commit"]
  /\ UNCHANGED <<now, advances, otp_storage, users, last, run, issued, overlap, phones,
     budget>>

\* UPDATE otp_storage SET attempts = attempts + 1 WHERE id = v_otp.id, then
\* the comparison of the codes.
VerifyUpdate(p) ==
  /\ pc[p] = "v_update"
  /\ MayApply(p)
  /\ tx' = [tx EXCEPT ![p].bump = @ \cup Effective(p)]
  /\ IF CodeMatches(v_otp(p), loc[p].otp) THEN
       /\ pc' = [pc EXCEPT ![p] = "v_delete"]
       /\ UNCHANGED loc
     ELSE
       /\ pc' = [pc EXCEPT ![p] = "v_commit"]
       /\ loc' = [loc EXCEPT ![p].result =
                    Result(FALSE, "Invalid OTP code", Remaining(v_otp(p)))]
  /\ UNCHANGED <<now, advances, otp_storage, users, last, run, issued, overlap, phones,
     budget>>

\* The success branch without its DELETE.
MutVerifyDeleteSuccess(p) ==
  /\ pc[p] = "v_delete"
  /\ MayApply(p)
  /\ loc' = [loc EXCEPT ![p].result =
               Result(TRUE, "OTP verified successfully", Remaining(v_otp(p)))]
  /\ pc' = [pc EXCEPT ![p] = "v_commit"]
  /\ UNCHANGED <<now, advances, otp_storage, users, tx, last, run, issued, overlap, phones,
     budget>>

\* DELETE FROM otp_storage WHERE id = v_otp.id (success)
VerifyDeleteSuccess(p) ==
  /\ pc[p] = "v_delete"
  /\ MayApply(p)
  /\ tx' = [tx EXCEPT ![p].del = @ \cup Effective(p)]
  /\ loc' = [loc EXCEPT ![p].result =
               Result(TRUE, "OTP verified successfully", Remaining(v_otp(p)))]
  /\ pc' = [pc EXCEPT ![p] = "v_commit"]
  /\ UNCHANGED <<now, advances, otp_storage, users, last, run, issued, overlap, phones,
     budget>>

\* The consecutive wrong, timely verifies since the last issue; -1 once
\* anything else happened.
NextRun(r, ok, late) ==
  IF r >= 0 /\ r < MaxAttempts + 2 /\ ~ok /\ ~late THEN r + 1 ELSE -1

\* if (!result || !result.success)
MutVerificationFailed(result) == ~result.set

VerificationFailed(result) == ~result.set \/ ~result.success

\* verify_otp returns and commits; the handler answers 400 on a failure
\* and goes on to listUsers on a success.
VerifyCommit(p) ==
  LET ph == loc[p].phone
      res == loc[p].result
      ok == \E i \in issued[ph] : i.otp_code = loc[p].otp
      late == \E i \in issued[ph] : tx[p].now > ExpiresAt(i.created_at)
  IN
  /\ pc[p] = "v_commit"
  /\ otp_storage' = Committed(p)
  /\ End(p)
  /\ last' = [last EXCEPT ![ph] = Event("verify", res)]
  /\ run' = [run EXCEPT ![ph] = NextRun(@, ok, late)]
  /\ IF VerificationFailed(res) THEN
       Respond(p, Resp(400, res.msg, res.n, {}))
     ELSE
       /\ pc' = [pc EXCEPT ![p] = "list_users"]
       /\ loc' = [loc EXCEPT ![p].otpId =
                    IF res.success THEN v_otp(p).id ELSE 0]
  /\ UNCHANGED <<now, advances, users, issued, overlap, phones,
     budget>>

\* ------------------------------------------------- the identity directory

\* The handler keeps no directory of its own: the accounts are the auth
\* service's. How that service stores a phone is not the handler's to say
\* ("formatting might be needed depending on how it's stored"): as it was
\* given, or without the leading '+'.
Formats == {"as_is", "no_plus"}

StripPlus(phone) ==
  IF phone # <<>> /\ phone[1] = "+" THEN Tail(phone) ELSE phone

Stored(fmt, phone) == IF fmt = "no_plus" THEN StripPlus(phone) ELSE phone

\* The format a directory stores phones in: the one its accounts show, either
\* while it has none.
DirFormats(dir) ==
  IF dir = {} THEN Formats
  ELSE IF \E u \in dir : u.phone = StripPlus(u.phone) THEN {"no_plus"}
  ELSE {"as_is"}

\* The accounts the auth service holds for a phone, whichever way the phone
\* is written (createUser's uniqueness, signInWithPassword's lookup).
UsersByPhone(dir, phone) ==
  {u \in dir : StripPlus(u.phone) = StripPlus(phone)}

NewUser(dir, fmt, phone, password) ==
  [id |-> Cardinality(dir) + 1, phone |-> Stored(fmt, phone),
   phone_confirm |-> TRUE, password |-> password]

\* The mint steps of p's request end with `status`: remembered with the
\* verification they followed.
MintEnds(p, status) ==
  last' = IF last[loc[p].phone].op = "verify" /\ last[loc[p].phone].success
            THEN [last EXCEPT ![loc[p].phone].status = status]
            ELSE last

\* listUsers() fails and the handler calls verify_otp again.
MutListUsersError(p) ==
  /\ pc[p] = "list_users"
  /\ pc' = [pc EXCEPT ![p] = "v_select"]
  /\ Begin(p)
  /\ UNCHANGED <<now, advances, otp_storage, users, loc, last, run, issued, overlap, phones,
     budget>>

\* res.status(500).json({ error: 'Auth error' })
AuthError == Resp(500, "Auth error", -1, {})

\* supabase.auth.admin.listUsers() fails (userError).
ListUsersError(p) ==
  /\ pc[p] = "list_users"
  /\ Respond(p, AuthError)
  /\ MintEnds(p, 500)
  /\ UNCHANGED <<now, advances, otp_storage, users, tx, run, issued, overlap, phones,
     budget>>

\* users.find(u => u.phone === formattedPhone): strict equality with the
\* phone as the directory returned it.
Find(page, phone) == {u \in page : u.phone = phone}

\* What one listUsers() call without paging arguments may return: the
\* directory's first page. The directory also holds the accounts of phones
\* other than the ones followed here, so any of these accounts may lie
\* beyond that page.
Pages(dir) == SUBSET dir

\* listUsers() returns a page; users.find(u => u.phone === formattedPhone);
\* then the handler awaits createUser (no such user) or, with tempPassword
\* drawn, updateUserById.
ListUsers(p, pw, page) ==
  /\ pc[p] = "list_users"
  /\ page \in Pages(users)
  /\ IF Find(page, loc[p].phone) = {} THEN
       /\ pc' = [pc EXCEPT ![p] = "create_user"]
       /\ UNCHANGED loc
     ELSE
       \E u \in Find(page, loc[p].phone) :
         /\ pc' = [pc EXCEPT ![p] = "update_user"]
         /\ loc' = [loc EXCEPT ![p].existing = {u.id}, ![p].userId = u.id,
                               ![p].pw = pw]
  /\ UNCHANGED <<now, advances, otp_storage, users, tx, last, run, issued, overlap, phones,
     budget>>

\* admin.createUser({phone, phone_confirm: true}): the directory refuses a
\* phone that is registered and stores a new one in its format; then
\* tempPassword is drawn and, existingUser being undefined, the handler
\* awaits the second createUser.
CreateUser(p, pw, fmt) ==
  /\ pc[p] = "create_user"
  /\ fmt \in DirFormats(users)
  /\ IF UsersByPhone(users, loc[p].phone) # {} THEN
       /\ Respond(p, Resp(500, "Failed to create user account", -1, {}))
       /\ MintEnds(p, 500)
       /\ UNCHANGED users
     ELSE
       /\ users' = users \cup {NewUser(users, fmt, loc[p].phone, NoPassword)}
       /\ pc' = [pc EXCEPT ![p] = "create_user_pw"]
       /\ loc' = [loc EXCEPT ![p].userId = Cardinality(users) + 1, ![p].pw = pw]
       /\ UNCHANGED last
  /\ UNCHANGED <<now, advances, otp_storage, tx, run, issued, overlap, phones,
     budget>>

\* createUser fails for a reason of the infrastructure (createError).
CreateUserError(p) ==
  /\ pc[p] = "create_user"
  /\ Respond(p, Resp(500, "Failed to create user account", -1, {}))
  /\ MintEnds(p, 500)
  /\ UNCHANGED <<now, advances, otp_storage, users, tx, run, issued, overlap, phones,
     budget>>

\* admin.createUser({phone, password: tempPassword, phone_confirm: true}):
\* `if (createError) throw createError` lands in the catch.
CreateUserWithPassword(p) ==
  /\ pc[p] = "create_user_pw"
  /\ IF UsersByPhone(users, loc[p].phone) # {} THEN
       /\ Respond(p, Resp(500, "Internal server error", -1, {}))
       /\ MintEnds(p, 500)
       /\ UNCHANGED users
     ELSE
       /\ \E fmt \in DirFormats(users) :
            users' = users \cup {NewUser(users, fmt, loc[p].phone, loc[p].pw)}
       /\ pc' = [pc EXCEPT ![p] = "sign_in"]
       /\ UNCHANGED <<loc, last>>
  /\ UNCHANGED <<now, advances, otp_storage, tx, run, issued, overlap, phones,
     budget>>

\* admin.updateUserById(existingUser.id, {password: tempPassword})
UpdateUser(p) ==
  /\ pc[p] = "update_user"
  /\ users' = {IF u.id \in loc[p].existing
                 THEN [u EXCEPT !.password = loc[p].pw] ELSE u : u \in users}
  /\ pc' = [pc EXCEPT ![p] = "sign_in"]
  /\ UNCHANGED <<now, advances, otp_storage, loc, tx, last, run, issued, overlap, phones,
     budget>>

\* updateUserById fails; its result is not looked at.
UpdateUserError(p) ==
  /\ pc[p] = "update_user"
  /\ pc' = [pc EXCEPT ![p] = "sign_in"]
  /\ UNCHANGED <<now, advances, otp_storage, users, loc, tx, last, run, issued, overlap, phones,
     budget>>

\* Who signInWithPassword({phone, password}) signs in.
SignedIn(dir, phone, password) ==
  {u \in UsersByPhone(dir, phone) :
     u.password = password /\ u.password # NoPassword /\ u.phone_confirm}

\* auth.signInWithPassword and the response.
SignIn(p) ==
  /\ pc[p] = "sign_in"
  /\ IF SignedIn(users, loc[p].phone, loc[p].pw) = {} THEN
       /\ Respond(p, Resp(500, "Failed to generate session", -1, {}))
       /\ MintEnds(p, 500)
     ELSE
       \E u \in SignedIn(users, loc[p].phone, loc[p].pw) :
         /\ Respond(p, Resp(200, "OTP verified successfully", -1, {u.id}))
         /\ MintEnds(p, 200)
  /\ UNCHANGED <<now, advances, otp_storage, users, tx, run, issued, overlap, phones,
     budget>>

\* signInWithPassword fails for a reason of the infrastructure (signInError).
SignInError(p) ==
  /\ pc[p] = "sign_in"
  /\ Respond(p, Resp(500, "Failed to generate session", -1, {}))
  /\ MintEnds(p, 500)
  /\ UNCHANGED <<now, advances, otp_storage, users, tx, run, issued, overlap, phones,
     budget>>

\* The awaits inside the try of the verify handler: the verify_otp rpc,
\* listUsers, the two createUser calls, updateUserById, signInWithPassword.
VerifyAwaits ==
  {"v_select", "list_users", "create_user", "create_user_pw", "update_user",
   "sign_in"}

\* An awaited call of the verify handler rejects (the request never reached
\* the service): the catch answers.
VerifyReject(p) ==
  /\ pc[p] \in VerifyAwaits
  /\ End(p)
  /\ Respond(p, Resp(500, "Internal server error", -1, {}))
  /\ IF pc[p] = "v_select" THEN UNCHANGED last ELSE MintEnds(p, 500)
  /\ UNCHANGED <<now, advances, otp_storage, users, run, issued, overlap, phones,
     budget>>

\* --------------------------------------------------- cleanup_expired_otps

\* The sweep is called.
SweepStart(p) ==
  /\ Start(p)
  /\ pc' = [pc EXCEPT ![p] = "s_scan"]
  /\ loc' = [loc EXCEPT ![p] = [NoLoc EXCEPT !.op = "sweep"]]
  /\ Begin(p)
  /\ UNCHANGED <<now, advances, otp_storage, users, last, run, issued>>

\* A DELETE FROM otp_storage without its WHERE.
MutSweepScan(p) ==
  /\ pc[p] = "s_scan"
  /\ pc' = [pc EXCEPT ![p] = "s_delete"]
  /\ tx' = [tx EXCEPT ![p].targets = RowIds(Snapshot(p))]
  /\ UNCHANGED <<now, advances, otp_storage, users, loc, last, run, issued, overlap, phones,
     budget>>

\* DELETE FROM otp_storage WHERE expires_at < NOW(): the snapshot's rows.
SweepScan(p) ==
  /\ pc[p] = "s_scan"
  /\ pc' = [pc EXCEPT ![p] = "s_delete"]
  /\ tx' = [tx EXCEPT ![p].targets =
              RowIds({r \in Snapshot(p) : IsExpired(r, tx[p].now)})]
  /\ UNCHANGED <<now, advances, otp_storage, users, loc, last, run, issued, overlap, phones,
     budget>>

\* ... deleted once no other transaction holds them.
SweepApply(p) ==
  /\ pc[p] = "s_delete"
  /\ ~LockedByOther(p, tx[p].targets)
  /\ pc' = [pc EXCEPT ![p] = "s_commit"]
  /\ tx' = [tx EXCEPT ![p].del = tx[p].targets \cap RowIds(otp_storage),
                      ![p].targets = {}]
  /\ UNCHANGED <<now, advances, otp_storage, users, loc, last, run, issued, overlap, phones,
     budget>>

\* GET DIAGNOSTICS deleted_count = ROW_COUNT; RETURN deleted_count.
SweepCommit(p) ==
  LET gone == {r \in otp_storage : r.id \in tx[p].del}
      hit == {r.phone_number : r \in gone}
      res == Result(TRUE, "", Cardinality(gone))
  IN
  /\ pc[p] = "s_commit"
  /\ otp_storage' = Committed(p)
  /\ End(p)
  /\ pc' = [pc EXCEPT ![p] = "done"]
  /\ loc' = [loc EXCEPT ![p].result = res]
  /\ last' = [ph \in Phones |->
                IF ph \in hit THEN Event("sweep", res) ELSE last[ph]]
  /\ run' = [ph \in Phones |-> IF ph \in hit THEN -1 ELSE run[ph]]
  /\ UNCHANGED <<now, advances, users, issued, overlap, phones,
     budget>>

\* ---------------------------------------------------------- specification

Inputs ==
  IF phones # {PhoneA} THEN PhonesInputs
  ELSE IF overlap THEN OverlapInputs ELSE SerialInputs

Step(p) ==
  \/ \E m \in Inputs.methods, ph \in Inputs.sendPhones : SendRequest(p, m, ph)
  \/ RateLimitSelect(p)
  \/ SendRpcReject(p)
  \/ RateLimitError(p)
  \/ \E k \in Inputs.rands : SendAfterRateLimit(p, k)
  \/ CreateError(p)
  \/ CreateDeleteScan(p)
  \/ CreateDeleteApply(p)
  \/ CreateInsert(p)
  \/ CreateCommit(p)
  \/ \E o \in Inputs.notify : Notify(p, o)
  \/ \E m \in Inputs.methods, ph \in Inputs.verifyPhones, otp \in Inputs.otps :
       VerifyRequest(p, m, ph, otp)
  \/ VerifyReject(p)
  \/ VerifyError(p)
  \/ VerifySelect(p)
  \/ VerifyDeleteExpired(p)
  \/ VerifyDeleteMax(p)
  \/ VerifyUpdate(p)
  \/ VerifyDeleteSuccess(p)
  \/ VerifyCommit(p)
  \/ ListUsersError(p)
  \/ \E pw \in Passwords, page \in SUBSET users : ListUsers(p, pw, page)
  \/ \E pw \in Passwords, fmt \in Formats : CreateUser(p, pw, fmt)
  \/ CreateUserError(p)
  \/ CreateUserWithPassword(p)
  \/ UpdateUser(p)
  \/ UpdateUserError(p)
  \/ SignIn(p)
  \/ SignInError(p)
  \/ SweepStart(p)
  \/ SweepScan(p)
  \/ SweepApply(p)
  \/ SweepCommit(p)
  \/ Finish(p)

Next ==
  \/ \E d \in Inputs.advances : Advance(d)
  \/ \E p \in Procs : Step(p)

\* Quiescent states the serial runs reach, from which overlapping requests
\* are explored: the table empty or holding PhoneA's record, untried or one
\* wrong try short of the limit; the directory with or without PhoneA's
\* account.
SceneCode == toString(GenerateCode(0))
SceneRow(att) ==
  [id |-> 1, phone_number |-> PhoneA, otp_code |-> SceneCode, created_at |-> 0,
   expires_at |-> ExpiresAt(0), attempts |-> att, verified |-> FALSE]
SceneUser == NewUser({}, "as_is", PhoneA, NoPassword)
SceneIssued == {[otp_code |-> SceneCode, created_at |-> 0]}

InitScenes ==
  /\ now = 0
  /\ advances = 0
  /\ pc = [p \in Procs |-> "idle"]
  /\ loc = [p \in Procs |-> NoLoc]
  /\ tx = [p \in Procs |-> NoTx]
  /\ overlap = TRUE
  /\ phones = {PhoneA}
  /\ budget = MaxRequests
  /\ users \in {{}, {SceneUser}}
  /\ \/ /\ otp_storage = {}
        /\ IF users = {}
             THEN /\ issued = [ph \in Phones |-> {}]
                  /\ last = [ph \in Phones |-> NoEvent]
             ELSE /\ issued = [ph \in Phones |-> IF ph = PhoneA THEN SceneIssued ELSE {}]
                  /\ last = [ph \in Phones |->
                               IF ph = PhoneA
                                 THEN [Event("verify", Result(TRUE, "OTP verified successfully", 4))
                                         EXCEPT !.status = 500]
                                 ELSE NoEvent]
        /\ run = [ph \in Phones |-> -1]
     \/ /\ otp_storage = {SceneRow(0)}
        /\ issued = [ph \in Phones |-> IF ph = PhoneA THEN SceneIssued ELSE {}]
        /\ last = [ph \in Phones |->
                     IF ph = PhoneA
                       THEN [Event("issue", Result(TRUE, "", 0)) EXCEPT !.notify = "sent"]
                       ELSE NoEvent]
        /\ run = [ph \in Phones |-> IF ph = PhoneA THEN 0 ELSE -1]
     \/ /\ otp_storage = {SceneRow(MaxAttempts - 1)}
        /\ issued = [ph \in Phones |-> IF ph = PhoneA THEN SceneIssued ELSE {}]
        /\ last = [ph \in Phones |->
                     IF ph = PhoneA
                       THEN Event("verify", Result(FALSE, "Invalid OTP code", 1))
                       ELSE NoEvent]
        /\ run = [ph \in Phones |-> IF ph = PhoneA THEN MaxAttempts - 1 ELSE -1]

\* Quiescent states the serial runs reach with two phones in use: PhoneB
\* holds an untried record with the same code as PhoneA's; PhoneA holds
\* none, an untried one, or one with its attempts used up.
SceneRowB(id) ==
  [id |-> id, phone_number |-> PhoneB, otp_code |-> SceneCode, created_at |-> 0,
   expires_at |-> ExpiresAt(0), attempts |-> 0, verified |-> FALSE]

IssueEvent == [Event("issue", Result(TRUE, "", 0)) EXCEPT !.notify = "sent"]

InitPhones ==
  /\ now = 0
  /\ advances = 0
  /\ pc = [p \in Procs |-> "idle"]
  /\ loc = [p \in Procs |-> NoLoc]
  /\ tx = [p \in Procs |-> NoTx]
  /\ overlap = TRUE
  /\ phones = Phones
  /\ budget = PhonesRequests
  /\ users = {}
  /\ \/ /\ otp_storage = {SceneRowB(1)}
        /\ issued = [ph \in Phones |-> IF ph = PhoneB THEN SceneIssued ELSE {}]
        /\ last = [ph \in Phones |-> IF ph = PhoneB THEN IssueEvent ELSE NoEvent]
        /\ run = [ph \in Phones |-> IF ph = PhoneB THEN 0 ELSE -1]
     \/ /\ otp_storage = {SceneRow(0), SceneRowB(2)}
        /\ issued = [ph \in Phones |-> SceneIssued]
        /\ last = [ph \in Phones |-> IssueEvent]
        /\ run = [ph \in Phones |-> 0]
     \/ /\ otp_storage = {SceneRow(MaxAttempts), SceneRowB(2)}
        /\ issued = [ph \in Phones |-> SceneIssued]
        /\ last = [ph \in Phones |->
                     IF ph = PhoneA
                       THEN Event("verify", Result(FALSE, "Invalid OTP code", 0))
                       ELSE IssueEvent]
        /\ run = [ph \in Phones |-> IF ph = PhoneA THEN MaxAttempts ELSE 0]

\* Every interleaving of a few requests.
Spec == InitScenes /\ [][Next]_vars

\* Every interleaving of two requests that may name different phones.
SpecPhones == InitPhones /\ [][Next]_vars

\* One request or sweep at a time.
SpecSerial == InitSerial /\ [][Next]_vars

\* ------------------------------------------------------------- properties

LiveRows(rows, ph) == {r \in rows : r.phone_number = ph /\ r.verified = FALSE}

NoOtpFound == "No OTP found for this phone number"

\* The submitted code is not the code last issued for the phone.
Wrong(p) == \A i \in issued[loc[p].phone] : i.otp_code # loc[p].otp

\* The verify is made no later than the expiry of the record last issued.
Timely(p) == \A i \in issued[loc[p].phone] : tx[p].now <= ExpiresAt(i.created_at)

MintPcs == {"list_users", "create_user", "create_user_pw", "update_user", "sign_in"}

\* C1: the table never holds two non-verified records for one phone, however
\* issuances are ordered or interleaved.
SingleActiveOtp ==
  \A ph \in Phones : Cardinality(LiveRows(otp_storage, ph)) <= 1

\* Two issuances overlap: one has committed its record and the other is at
\* its INSERT.
SingleActiveOtpWitness ==
  \E p \in Procs : \E q \in Other(p) :
    /\ pc[p] = "notify" /\ pc[q] = "c_insert"
    /\ loc[q].phone = loc[p].phone
    /\ Cardinality(LiveRows(otp_storage, loc[p].phone)) = 1

\* C2: no two verify requests succeed against the same record.
ConcurrentVerifyExclusion ==
  \A p \in Procs : \A q \in Other(p) :
    loc[p].otpId # 0 => loc[p].otpId # loc[q].otpId

\* C3 (requests one at a time): a verify with the correct code against a
\* live, unexpired record with attempts below 5 succeeds and leaves no record
\* for the phone; the verify that follows a successful one, with no issue in
\* between, reports that no OTP was found.
SuccessConsumption ==
  \A p \in Procs :
    LET ph == loc[p].phone
        res == loc[p].result
    IN  /\ pc[p] = "v_commit" =>
             /\ \A r \in LiveRows(otp_storage, ph) :
                  (r.expires_at >= tx[p].now /\ r.attempts < MaxAttempts
                     /\ r.otp_code = loc[p].otp)
                    => (res.success /\ LiveRows(Committed(p), ph) = {})
             /\ (last[ph].op = "verify" /\ last[ph].success)
                  => (~res.success /\ res.msg = NoOtpFound /\ res.n = 0)
        /\ pc[p] = "list_users" => LiveRows(otp_storage, ph) = {}

\* A replay of the correct code right after it succeeded.
SuccessConsumptionWitness ==
  \E p \in Procs :
    /\ pc[p] = "v_commit"
    /\ last[loc[p].phone].op = "verify" /\ last[loc[p].phone].success
    /\ ~Wrong(p)
    /\ loc[p].result.msg = NoOtpFound

\* C4 as stated (requests one at a time): the k-th of consecutive wrong
\* verifies since the issue returns 5 - k remaining attempts, the fifth
\* leaves no record, the sixth reports that no OTP was found.
AttemptExhaustionAsStated ==
  \A p \in Procs :
    (pc[p] = "v_commit" /\ run[loc[p].phone] >= 0 /\ Wrong(p) /\ Timely(p)) =>
      LET ph == loc[p].phone
          res == loc[p].result
          k == run[ph] + 1
      IN  /\ k <= 5 => (~res.success /\ res.n = 5 - k)
          /\ k = 5 => LiveRows(Committed(p), ph) = {}
          /\ k = 6 => (~res.success /\ res.msg = NoOtpFound)

\* C4 amended (requests one at a time): the k-th of consecutive wrong
\* verifies since the issue returns "Invalid OTP code" with 5 - k remaining
\* attempts and leaves the record with attempts = k, for k = 1..5; the sixth
\* returns "Maximum verification attempts exceeded" with 0 and deletes the
\* record; the seventh reports that no OTP was found.
AttemptExhaustion ==
  \A p \in Procs :
    (pc[p] = "v_commit" /\ run[loc[p].phone] >= 0 /\ Wrong(p) /\ Timely(p)) =>
      LET ph == loc[p].phone
          res == loc[p].result
          k == run[ph] + 1
          post == LiveRows(Committed(p), ph)
      IN  /\ k <= 5 =>
               /\ res = Result(FALSE, "Invalid OTP code", 5 - k)
               /\ post # {}
               /\ \A r \in post : r.attempts = k
          /\ k = 6 =>
               /\ res = Result(FALSE, "Maximum verification attempts exceeded", 0)
               /\ post = {}
          /\ k = 7 => res = Result(FALSE, NoOtpFound, 0)

\* The seventh consecutive wrong verify.
AttemptExhaustionWitness ==
  \E p \in Procs :
    /\ pc[p] = "v_commit" /\ run[loc[p].phone] = 6
    /\ Wrong(p) /\ Timely(p)

\* C5 (requests one at a time): a verify made after expires_at returns
\* "OTP has expired" with 0 remaining attempts whatever the code, increments
\* nothing and leaves no record; the verify that follows reports that no OTP
\* was found; a verify made at expires_at exactly is not refused as expired.
Expiry ==
  \A p \in Procs :
    pc[p] = "v_commit" =>
      LET ph == loc[p].phone
          res == loc[p].result
      IN  /\ \A r \in LiveRows(otp_storage, ph) :
               /\ tx[p].now > r.expires_at =>
                    /\ res = Result(FALSE, "OTP has expired", 0)
                    /\ tx[p].bump = {}
                    /\ LiveRows(Committed(p), ph) = {}
               /\ tx[p].now = r.expires_at =>
                    /\ res.msg # "OTP has expired"
                    /\ (r.otp_code = loc[p].otp /\ r.attempts < MaxAttempts)
                         => res.success
          /\ (last[ph].op = "verify" /\ last[ph].msg = "OTP has expired")
               => res = Result(FALSE, NoOtpFound, 0)

\* A verify with the correct code after the expiry.
ExpiryWitness ==
  \E p \in Procs :
    /\ pc[p] = "v_commit"
    /\ \E r \in LiveRows(otp_storage, loc[p].phone) :
         tx[p].now > r.expires_at /\ r.otp_code = loc[p].otp

\* C6: a handler is at the account lookup, the credential setting or the
\* sign-in only after verify_otp returned success in the same request, and a
\* 200 of the verify endpoint carries the session of the account with the
\* request's phone.
SessionOnlyAfterVerification ==
  \A p \in Procs :
    /\ pc[p] \in MintPcs =>
         /\ loc[p].op = "verify"
         /\ loc[p].result.success /\ ~loc[p].result.error
    /\ (loc[p].resp.session # {} \/ (loc[p].op = "verify" /\ loc[p].resp.status = 200)) =>
         /\ loc[p].op = "verify"
         /\ loc[p].resp.status = 200
         /\ loc[p].result.success /\ ~loc[p].result.error
         /\ \E u \in UsersByPhone(users, loc[p].phone) :
              loc[p].resp.session = {u.id}

\* A verify request answered 200.
SessionOnlyAfterVerificationWitness ==
  \E p \in Procs : loc[p].op = "verify" /\ loc[p].resp.status = 200

\* C7: a verify request that found no account and created one ends with 200
\* and a session for that account, the only one for its phone.
NewAccountAtMintTime ==
  \A p \in Procs :
    (pc[p] = "done" /\ loc[p].op = "verify" /\ loc[p].existing = {}
       /\ loc[p].userId # 0) =>
      /\ loc[p].resp.status = 200
      /\ loc[p].resp.session = {loc[p].userId}
      /\ Cardinality(UsersByPhone(users, loc[p].phone)) = 1

\* C8: a phone never has two accounts; a handler whose lookup is answered
\* while the phone has an account goes to the credential setting with that
\* account, never to an account creation; its session is that account's.
IdempotentAccountResolution ==
  /\ [](/\ \A ph \in Phones : Cardinality(UsersByPhone(users, ph)) <= 1
        /\ \A p \in Procs :
             /\ pc[p] \in {"create_user", "create_user_pw"} => loc[p].existing = {}
             /\ (loc[p].existing # {} /\ loc[p].resp.status = 200)
                  => loc[p].resp.session = loc[p].existing)
  /\ [][\A p \in Procs :
          (pc[p] = "list_users" /\ pc'[p] \in MintPcs \ {"list_users"}
             /\ UsersByPhone(users, loc[p].phone) # {})
            => /\ pc'[p] = "update_user"
               /\ loc'[p].existing = {u.id : u \in UsersByPhone(users, loc[p].phone)}]_vars

\* C9: once the verify handler has answered 200, no password signs in to the
\* account of the session.
EphemeralCredential ==
  \A p \in Procs :
    (pc[p] = "done" /\ loc[p].op = "verify" /\ loc[p].resp.status = 200) =>
      \A u \in users :
        u.id \in loc[p].resp.session =>
          \A pw \in Passwords : SignedIn(users, u.phone, pw) = {}

\* C10 (requests one at a time): a rate-limit check made a whole number of
\* seconds d < 15 after the creation time of the last record issued for the
\* phone denies, with wait_seconds = 15 - d.
RateLimitMonotonicity ==
  \A p \in Procs :
    (pc[p] = "rl_ret" /\ ~loc[p].result.error) =>
      \A i \in issued[loc[p].phone] :
        LET d == loc[p].t - i.created_at
        IN  (d >= 0 /\ d < WindowSeconds * TicksPerSecond
                    /\ d % TicksPerSecond = 0) =>
              /\ ~loc[p].result.success
              /\ loc[p].result.n = WindowSeconds - d \div TicksPerSecond

\* C11 (requests one at a time): a send whose notifier did not deliver is
\* answered 200 'OTP sent successfully' with the record create_otp_entry
\* stored still in the table as it was inserted; the next verify for the
\* phone, made with that code no later than its expiry, succeeds.
DeliveryFailureKeepsIssuance ==
  \A p \in Procs :
    /\ (pc[p] = "done" /\ loc[p].op = "send"
           /\ loc[p].notify \in NotifyOutcomes \ {"sent"}) =>
         /\ loc[p].resp = Resp(200, "OTP sent successfully", ExpiresIn, {})
         /\ \E r \in otp_storage :
              /\ r.id = loc[p].result.n
              /\ r.phone_number = loc[p].phone
              /\ r.attempts = 0 /\ r.verified = FALSE
              /\ r.expires_at = ExpiresAt(r.created_at)
              /\ issued[loc[p].phone] =
                   {[otp_code |-> r.otp_code, created_at |-> r.created_at]}
    /\ (pc[p] = "v_commit" /\ last[loc[p].phone].op = "issue"
           /\ last[loc[p].phone].notify \in NotifyOutcomes \ {"sent"}
           /\ ~Wrong(p) /\ Timely(p)) =>
         loc[p].result = Result(TRUE, "OTP verified successfully", MaxAttempts - 1)

\* A verify with the issued code after a send whose notifier threw.
DeliveryFailureKeepsIssuanceWitness ==
  \E p \in Procs :
    /\ pc[p] = "v_commit" /\ last[loc[p].phone].op = "issue"
    /\ last[loc[p].phone].notify = "threw"
    /\ ~Wrong(p) /\ Timely(p)
    /\ loc[p].result.success

\* C12 as stated (requests one at a time): the first verify after an issue,
\* with a wrong code, returns failure 'Invalid OTP code' with 4 remaining
\* attempts, and the verify that follows it with the issued code returns
\* success with 4 remaining attempts.
ConcreteScenarioAsStated ==
  \A p \in Procs :
    (pc[p] = "v_commit" /\ Timely(p)) =>
      /\ (run[loc[p].phone] = 0 /\ Wrong(p)) =>
           loc[p].result = Result(FALSE, "Invalid OTP code", 4)
      /\ (run[loc[p].phone] = 1 /\ ~Wrong(p)) =>
           (loc[p].result.success /\ loc[p].result.n = 4)

\* C12 amended (requests one at a time): ... and the verify that follows it
\* with the issued code returns success 'OTP verified successfully' with 3
\* remaining attempts.
ConcreteScenario ==
  \A p \in Procs :
    (pc[p] = "v_commit" /\ Timely(p)) =>
      /\ (run[loc[p].phone] = 0 /\ Wrong(p)) =>
           loc[p].result = Result(FALSE, "Invalid OTP code", 4)
      /\ (run[loc[p].phone] = 1 /\ ~Wrong(p)) =>
           loc[p].result = Result(TRUE, "OTP verified successfully", 3)

\* The issued code is verified right after one wrong try.
ConcreteScenarioWitness ==
  \E p \in Procs :
    /\ pc[p] = "v_commit" /\ Timely(p)
    /\ run[loc[p].phone] = 1 /\ ~Wrong(p)
    /\ loc[p].result.success

\* C13: every comparison of codes follows an increment of the record's
\* attempts, so the comparisons made against a record that is still stored
\* are its attempts, as the comparing transaction sees them; they never
\* exceed 5, however verify requests interleave.
AttemptBudgetUnderConcurrency ==
  \A p \in Procs :
    pc[p] \in {"v_delete", "v_commit"} =>
      \A r \in Snapshot(p) : r.attempts <= MaxAttempts

\* C14 (requests one at a time): once verify_otp returned success the handler
\* does not call it again; while it mints and when it has answered anything
\* but 200, the phone has no record; the answer is then a 500 without a
\* session; and the next verify for the phone after such a 500, with no issue
\* in between, reports that no OTP was found.
ConsumedAfterMintFailure ==
  /\ [](\A p \in Procs :
          /\ pc[p] \in MintPcs => LiveRows(otp_storage, loc[p].phone) = {}
          /\ (pc[p] = "done" /\ loc[p].otpId # 0 /\ loc[p].resp.status # 200) =>
               /\ loc[p].resp.status = 500
               /\ loc[p].resp.session = {}
               /\ LiveRows(otp_storage, loc[p].phone) = {}
          /\ (pc[p] = "v_commit" /\ last[loc[p].phone].op = "verify"
                 /\ last[loc[p].phone].status = 500) =>
               loc[p].result = Result(FALSE, NoOtpFound, 0))
  /\ [][\A p \in Procs :
          pc[p] \in MintPcs => pc'[p] \in MintPcs \cup {"done"}]_vars

\* The issued code is tried again after the mint steps answered 500.
ConsumedAfterMintFailureWitness ==
  \E p \in Procs :
    /\ pc[p] = "v_commit" /\ last[loc[p].phone].op = "verify"
    /\ last[loc[p].phone].status = 500
    /\ ~Wrong(p) /\ Timely(p)
    /\ loc[p].result.msg = NoOtpFound

\* A body field that is a string made of `prefix` and ten decimal digits.
PrefixAndTenDigits(v, prefix) ==
  /\ v.t = "string"
  /\ Len(v.s) = Len(prefix) + 10
  /\ SubSeq(v.s, 1, Len(prefix)) = prefix
  /\ \A i \in Len(prefix) + 1 .. Len(v.s) : v.s[i] \in Digit

WellFormedPhone(v) ==
  PrefixAndTenDigits(v, <<"+", "1">>) \/ PrefixAndTenDigits(v, <<"+", "9", "1">>)

\* C15: a POST to the send endpoint whose phoneNumber is absent (the body
\* lacks it, or there is no body), not a string, or not '+1' or '+91'
\* followed by ten digits is answered 400 in the step that takes it: no rpc
\* is called or returns, no code is generated, the notifier is not called,
\* and the table is as it was.
SendValidationBeforeStore ==
  /\ [](\A p \in Procs :
          (loc[p].op = "send" /\ loc[p].req.method = "POST"
             /\ ~WellFormedPhone(loc[p].req.phoneNumber)) =>
            /\ pc[p] = "done"
            /\ loc[p].resp.status = 400
            /\ tx[p] = NoTx
            /\ loc[p].result = NoResult
            /\ loc[p].code = <<>>
            /\ loc[p].notify = "none")
  /\ [][\A p \in Procs :
          (pc[p] = "idle" /\ loc'[p].op = "send"
             /\ ~WellFormedPhone(loc'[p].req.phoneNumber)) =>
            (otp_storage' = otp_storage /\ tx' = tx)]_vars

\* A body field that is a string of six decimal digits.
WellFormedCode(v) ==
  /\ v.t = "string"
  /\ Len(v.s) = 6
  /\ \A i \in 1..6 : v.s[i] \in Digit

\* C16: a POST to the verify endpoint whose phone number or code is
\* malformed reads no record and increments no attempts counter.
VerifyValidationBeforeStore ==
  \A p \in Procs :
    (loc[p].op = "verify" /\ loc[p].req.method = "POST"
       /\ ~(WellFormedPhone(loc[p].req.phoneNumber)
              /\ WellFormedCode(loc[p].req.otp))) =>
      /\ tx[p].v_otp = {}
      /\ tx[p].bump = {}

\* C17 (requests one at a time): whichever mint step fails, the verify
\* handler's answer is the one it gives when the account lookup fails.
OpaqueMintFailure ==
  \A p \in Procs :
    (pc[p] = "done" /\ loc[p].op = "verify" /\ loc[p].otpId # 0
       /\ loc[p].resp.status # 200) =>
      loc[p].resp = AuthError

\* The fixed answers of the send endpoint other than its 429 and its 200.
SendRefusals ==
  {Resp(405, "Method not allowed", -1, {}),
   Resp(400, "Phone number is required", -1, {}),
   Resp(400, "Phone number must include country code (e.g., +91 or +1)", -1, {}),
   Resp(400, "Invalid phone number format. Must be +1 or +91 followed by 10 digits.", -1, {}),
   Resp(500, "Failed to check rate limit", -1, {}),
   Resp(500, "Failed to create OTP", -1, {}),
   Resp(500, "An unexpected error occurred", -1, {})}

\* C18 (requests one at a time): a response of the send endpoint is one of
\* the fixed refusals, or the 429 whose wait is computed from the clock and
\* the last creation time, or the one 200 response, the same whatever code
\* was generated and whatever otpId create_otp_entry returned.
NoSecretInSendResponse ==
  \A p \in Procs :
    (pc[p] = "done" /\ loc[p].op = "send") =>
      \/ loc[p].resp \in SendRefusals
      \/ \E i \in issued[loc[p].phone] :
           loc[p].resp =
             Resp(429, "Too many OTP requests",
                  WindowSeconds - RoundSeconds(loc[p].t - i.created_at), {})
      \/ /\ loc[p].notify # "none"
         /\ loc[p].resp = Resp(200, "OTP sent successfully", ExpiresIn, {})

\* A send answered 200 whose code is the largest the generator yields and
\* whose otpId is not the first.
NoSecretInSendResponseWitness ==
  \E p \in Procs :
    /\ pc[p] = "done" /\ loc[p].op = "send" /\ loc[p].resp.status = 200
    /\ loc[p].result.n > 1
    /\ \E i \in issued[loc[p].phone] :
         i.otp_code = toString(GenerateCode(RandDen - 1))

\* The outcomes of verify_otp that consume the record.
Consuming ==
  {"OTP verified successfully", "OTP has expired",
   "Maximum verification attempts exceeded"}

\* C19 (requests one at a time): when the last record issued for a phone
\* has been consumed by a verify, a rate-limit check made less than 15
\* seconds after that record's creation time still denies.
RateLimitSurvivesConsumption ==
  \A p \in Procs :
    (pc[p] = "rl_ret" /\ ~loc[p].result.error
       /\ last[loc[p].phone].op = "verify"
       /\ last[loc[p].phone].msg \in Consuming) =>
      \A i \in issued[loc[p].phone] :
        (loc[p].t >= i.created_at
           /\ loc[p].t - i.created_at < WindowSeconds * TicksPerSecond) =>
          ~loc[p].result.success

\* The record a verify_otp call at its return has read, if any.
Found(p) == IF pc[p] = "v_commit" THEN tx[p].v_otp ELSE {}

MaxExceeded == Result(FALSE, "Maximum verification attempts exceeded", 0)

\* C20 as stated (requests one at a time): a verify_otp call that found a
\* record with attempts >= 5 returns 'Maximum verification attempts
\* exceeded' with remaining_attempts 0 and leaves no record for the phone.
NoSuccessPastBudgetAsStated ==
  \A p \in Procs : \A v \in Found(p) :
    v.attempts >= MaxAttempts =>
      /\ loc[p].result = MaxExceeded
      /\ LiveRows(Committed(p), loc[p].phone) = {}

\* C20, amended (requests one at a time): a verify_otp call that found an
\* unexpired record with attempts >= 5 returns 'Maximum verification
\* attempts exceeded' with remaining_attempts 0, whatever the submitted
\* code, and leaves no record for the phone; an expired record with
\* attempts >= 5 is deleted with 'OTP has expired'; and a call that succeeds
\* found a record with attempts < 5.
NoSuccessPastBudget ==
  \A p \in Procs : \A v \in Found(p) :
    /\ v.attempts >= MaxAttempts =>
         /\ loc[p].result =
              IF IsExpired(v, tx[p].now)
              THEN Result(FALSE, "OTP has expired", 0)
              ELSE MaxExceeded
         /\ LiveRows(Committed(p), loc[p].phone) = {}
    /\ loc[p].result.success => v.attempts < MaxAttempts

\* The correct code submitted against an unexpired record with attempts = 5.
NoSuccessPastBudgetWitness ==
  \E p \in Procs : \E v \in Found(p) :
    /\ v.attempts >= MaxAttempts
    /\ ~IsExpired(v, tx[p].now)
    /\ v.otp_code = loc[p].otp
    /\ loc[p].result = MaxExceeded

\* C21 (requests one at a time): a verify_otp call with a wrong code that
\* found an unexpired record with attempts < 5 returns 'Invalid OTP code'
\* with remaining_attempts = 5 - (attempts + 1), and after it the only record
\* of the phone is the one found with attempts increased by one and every
\* other column unchanged.
MismatchFrame ==
  \A p \in Procs : \A v \in Found(p) :
    (~IsExpired(v, tx[p].now) /\ v.attempts < MaxAttempts
       /\ v.otp_code # loc[p].otp) =>
      /\ loc[p].result =
           Result(FALSE, "Invalid OTP code", MaxAttempts - (v.attempts + 1))
      /\ LiveRows(Committed(p), loc[p].phone) =
           {[v EXCEPT !.attempts = v.attempts + 1]}

\* A wrong code against a record with one attempt left.
MismatchFrameWitness ==
  \E p \in Procs : \E v \in Found(p) :
    /\ ~IsExpired(v, tx[p].now)
    /\ v.attempts = MaxAttempts - 1
    /\ v.otp_code # loc[p].otp
    /\ loc[p].result = Result(FALSE, "Invalid OTP code", 0)

\* Whole seconds elapsed in a number of ticks.
WholeSeconds(ticks) == ticks \div TicksPerSecond

\* C22 (requests one at a time): check_otp_rate_limit returns (TRUE, 0) when
\* the phone has no record; otherwise, with wait = window minus the whole
\* seconds elapsed since the latest created_at, it returns (FALSE, wait)
\* when wait > 0 and (TRUE, 0) when wait <= 0; a denial has
\* 1 <= wait <= window and an allowance has wait = 0.
RateLimiterResult ==
  \A p \in Procs :
    (pc[p] = "rl_ret" /\ ~loc[p].result.error) =>
      LET mine == {r \in otp_storage : r.phone_number = loc[p].phone}
          wait == WindowSeconds
                    - WholeSeconds(loc[p].t - LastCreated(mine))
          res == loc[p].result
      IN  /\ res = IF mine = {} THEN Result(TRUE, "", 0)
                   ELSE IF wait > 0 THEN Result(FALSE, "", wait)
                   ELSE Result(TRUE, "", 0)
          /\ ~res.success => (1 <= res.n /\ res.n <= WindowSeconds)
          /\ res.success => res.n = 0

\* A send request of slot p that is at its rate-limit check, or has been
\* answered 429.
AtGate(p) ==
  /\ loc[p].op = "send"
  /\ \/ pc[p] \in {"rl_select", "rl_ret"}
     \/ pc[p] = "done" /\ loc[p].resp.status = 429

\* C23 (requests one at a time): no step of a send request up to its
\* rate-limit check, and none that answers 429, changes the store or the
\* record of what was issued, and none calls the notifier; when the 429 is
\* sent the phone's record is the one last issued, with its code, creation
\* time and expiry, and it has not expired.
DeniedSendChangesNothing ==
  /\ [](\A p \in Procs :
         (AtGate(p) /\ pc[p] = "done") =>
           /\ loc[p].notify = "none"
           /\ \E r \in otp_storage :
                /\ LiveRows(otp_storage, loc[p].phone) = {r}
                /\ issued[loc[p].phone] =
                     {[otp_code |-> r.otp_code, created_at |-> r.created_at]}
                /\ r.expires_at = ExpiresAt(r.created_at)
                /\ ~IsExpired(r, loc[p].t))
  /\ [][\A p \in Procs :
         AtGate(p)' =>
           /\ otp_storage' = otp_storage
           /\ issued' = issued
           /\ loc'[p].notify = "none"]_vars

\* A send answered 429 while the record has attempts spent on it.
DeniedSendChangesNothingWitness ==
  \E p \in Procs :
    /\ AtGate(p) /\ pc[p] = "done"
    /\ \E r \in LiveRows(otp_storage, loc[p].phone) : r.attempts > 0

\* C24 (requests one at a time): when create_otp_entry(phone, code, 5)
\* returns, the phone's only record is the new one, with the given code,
\* attempts = 0, verified = FALSE, created_at the call's time and
\* expires_at five minutes later, whatever record the phone had before; and
\* a verify_otp call succeeds only with the code of the record last created.
IssuePostcondition ==
  \A p \in Procs :
    /\ pc[p] = "c_commit" =>
         \E r \in Committed(p) :
           /\ {c \in Committed(p) : c.phone_number = loc[p].phone} = {r}
           /\ r.otp_code = loc[p].code
           /\ r.attempts = 0
           /\ r.verified = FALSE
           /\ r.created_at = tx[p].now
           /\ r.expires_at = tx[p].now + ExpiryMinutes * 60 * TicksPerSecond
    /\ (pc[p] = "v_commit" /\ loc[p].result.success) =>
         \E i \in issued[loc[p].phone] : i.otp_code = loc[p].otp

\* create_otp_entry returns over a prior record that has expired with
\* attempts spent on it and holds a different code.
IssuePostconditionWitness ==
  \E p \in Procs :
    /\ pc[p] = "c_commit"
    /\ \E r \in otp_storage :
         /\ r.phone_number = loc[p].phone
         /\ r.attempts > 0
         /\ IsExpired(r, tx[p].now)
         /\ r.otp_code # loc[p].code

\* The record create_otp_entry stored for the send request of slot p.
Persisted(p) ==
  {r \in otp_storage :
     /\ r.id = loc[p].result.n
     /\ r.phone_number = loc[p].phone
     /\ r.otp_code = loc[p].code}

\* C25 (requests one at a time): in a send request the code is generated
\* only after the rate-limit check has allowed, create_otp_entry inserts
\* only a generated code, and the notifier is called only when
\* create_otp_entry has returned and the record it stored holds the
\* handler's phone and code; a failed rate-limit rpc is answered 500 with
\* no code generated and the store unchanged, and a failed create_otp_entry
\* is answered 500 with the store unchanged and the notifier not called.
SendPipelineOrdering ==
  /\ [](\A p \in Procs :
         /\ pc[p] = "notify" => (~loc[p].result.error /\ Persisted(p) # {})
         /\ (pc[p] = "done" /\ loc[p].op = "send"
               /\ loc[p].resp.status = 500) => loc[p].notify = "none"
         /\ \A r \in tx[p].ins : r.otp_code = loc[p].code /\ r.otp_code # <<>>)
  /\ [][\A p \in Procs :
         /\ (loc[p].code = <<>> /\ loc'[p].code # <<>>) =>
              (pc[p] = "rl_ret" /\ loc[p].result.success)
         /\ (loc[p].notify = "none" /\ loc'[p].notify # "none") =>
              (pc[p] = "notify" /\ Persisted(p) # {})
         /\ (loc[p].op = "send" /\ pc[p] # "done" /\ pc'[p] = "done"
               /\ loc'[p].resp.status = 500) =>
              /\ otp_storage' = otp_storage
              /\ pc[p] = "rl_ret" => loc[p].code = <<>>]_vars

\* A send request failed at create_otp_entry while the phone has a record.
SendPipelineOrderingWitness ==
  \E p \in Procs :
    /\ pc[p] = "done" /\ loc[p].op = "send"
    /\ loc[p].resp = Resp(500, "Failed to create OTP", -1, {})
    /\ LiveRows(otp_storage, loc[p].phone) # {}

\* C26 (overlapping requests and sweeps): a verify_otp call that found a
\* record with expires_at < NOW() returns 'OTP has expired', and one that
\* found no record returns 'No OTP found for this phone number', each a
\* failure with remaining_attempts 0, whether cleanup_expired_otps has not
\* run, has committed before the call or runs while it runs; a call that
\* succeeds found a record that had not expired.
ExpiryWithoutSweep ==
  \A p \in Procs :
    pc[p] = "v_commit" =>
      /\ \A v \in Found(p) :
           v.expires_at < tx[p].now =>
             loc[p].result = Result(FALSE, "OTP has expired", 0)
      /\ Found(p) = {} => loc[p].result = Result(FALSE, NoOtpFound, 0)
      /\ loc[p].result.success =>
           \E v \in Found(p) : v.expires_at >= tx[p].now

\* A verify_otp call with the right code read the expired record while a
\* sweep was deleting it: the sweep has committed, the call's own DELETE
\* found nothing, and the call returns 'OTP has expired'.
ExpiryWithoutSweepWitness ==
  \E p \in Procs : \E v \in Found(p) :
    /\ v.expires_at < tx[p].now
    /\ v.otp_code = loc[p].otp
    /\ tx[p].del = {}
    /\ last[loc[p].phone].op = "sweep"
    /\ loc[p].result = Result(FALSE, "OTP has expired", 0)

\* The rows of one phone.
RowsOf(rows, ph) == {r \in rows : r.phone_number = ph}

\* Slot p runs a send or a verify request (not a sweep).
PhoneOp(p) == loc[p].op \in {"send", "verify"}

\* C27 (overlapping requests for two phones): a send or verify request for
\* one phone reads, locks, updates, deletes and inserts only rows of that
\* phone; none of its steps changes another phone's rows or what was issued
\* for it; the rate-limit result is the one computed from the phone's own
\* rows; and it never waits for a request for another phone.
PerPhoneIndependence ==
  /\ [](\A p \in Procs :
         PhoneOp(p) =>
           /\ \A v \in tx[p].v_otp \cup tx[p].ins :
                v.phone_number = loc[p].phone
           /\ \A r \in otp_storage :
                r.id \in tx[p].targets \cup tx[p].del \cup tx[p].bump =>
                  r.phone_number = loc[p].phone
           /\ \A q \in Other(p) :
                (PhoneOp(q) /\ loc[q].phone # loc[p].phone) =>
                  /\ (tx[p].targets \cup RowIds(tx[p].v_otp))
                       \cap (tx[q].del \cup tx[q].bump) = {}
                  /\ RowsOf(tx[q].ins, loc[p].phone) = {})
  /\ [][\A p \in Procs :
         (pc'[p] # pc[p] /\ PhoneOp(p)') =>
           /\ \A ph \in Phones \ {loc'[p].phone} :
                /\ RowsOf(otp_storage', ph) = RowsOf(otp_storage, ph)
                /\ issued'[ph] = issued[ph]
           /\ (pc[p] = "rl_select" /\ pc'[p] = "rl_ret"
                 /\ ~loc'[p].result.error) =>
                loc'[p].result =
                  check_otp_rate_limit(RowsOf(otp_storage, loc[p].phone),
                                       loc[p].phone, WindowSeconds, tx[p].now)]_vars

\* A verify for PhoneA with the code both phones hold has deleted PhoneA's
\* record while a send for PhoneB is inserting: PhoneB's record is as it
\* was issued.
PerPhoneIndependenceWitness ==
  \E p \in Procs : \E q \in Other(p) :
    /\ loc[p].op = "verify" /\ loc[p].phone = PhoneA
    /\ loc[p].result.success /\ pc[p] = "list_users"
    /\ loc[q].op = "send" /\ loc[q].phone = PhoneB
    /\ pc[q] = "c_commit"
    /\ otp_storage = {SceneRowB(2)}

\* The outcomes of verify_otp the error taxonomy puts in one class.
NotFoundOrExpiredOrExhausted ==
  {Result(FALSE, NoOtpFound, 0), Result(FALSE, "OTP has expired", 0), MaxExceeded}

\* C28: any two verify requests whose verify_otp outcome was 'no OTP
\* found', 'expired' or 'attempts exhausted' are answered with the same
\* response.
IndistinguishableVerifyFailures ==
  \A p \in Procs : \A q \in Procs :
    (pc[p] = "done" /\ loc[p].op = "verify"
       /\ loc[p].result \in NotFoundOrExpiredOrExhausted
       /\ pc[q] = "done" /\ loc[q].op = "verify"
       /\ loc[q].result \in NotFoundOrExpiredOrExhausted) =>
      loc[p].resp = loc[q].resp

\* A string of exactly six decimal digits, the first not 0.
SixDigits(s) ==
  /\ Len(s) = 6
  /\ \A i \in 1..6 : s[i] \in Digit
  /\ s[1] # "0"

\* Every draw k / RandDen of Math.random() gives a value in 100000..999999
\* whose decimal string has six digits and no leading zero.
EveryDrawSixDigits ==
  \A k \in 0..(RandDen - 1) :
    LET n == GenerateCode(k)
    IN  /\ n >= CodeBase
        /\ n <= CodeBase + CodeSpan - 1
        /\ SixDigits(toString(n))

\* C29: every code the send handler holds, and
\* every code in a stored or inserted record, is a string of exactly six
\* decimal digits with no leading zero; and where the handler has just
\* generated one, every draw k / RandDen of Math.random() gives a value in
\* 100000..999999 whose decimal string has that form.
CodeFormat ==
  /\ \A r \in otp_storage : SixDigits(r.otp_code)
  /\ \A p \in Procs :
       /\ \A r \in tx[p].ins : SixDigits(r.otp_code)
       /\ loc[p].code # <<>> => SixDigits(loc[p].code)
       /\ pc[p] = "c_delete_scan" => EveryDrawSixDigits

\* The largest draw has been generated and stored.
CodeFormatWitness ==
  \E r \in otp_storage :
    /\ r.otp_code = toString(GenerateCode(RandDen - 1))
    /\ r.otp_code # toString(CodeBase)

\* C30 (overlapping requests): a verify_otp call that returns when a
\* create_otp_entry for the phone has committed a record other than the one
\* the call read does not succeed.
VerifyVersusReissue ==
  \A p \in Procs : \A v \in Found(p) :
    (\E r \in otp_storage :
       r.phone_number = loc[p].phone /\ r.id # v.id) =>
      ~loc[p].result.success

\* The distance between two times, in ticks.
Apart(t, u) == IF t >= u THEN t - u ELSE u - t

\* C31 (overlapping requests): when a send request has issued (its record
\* was created and its code dispatched, answered 200) and another send
\* request for the same phone is at the return of its create_otp_entry,
\* the record being created and the record last created are at least 15
\* seconds apart.
CooldownUnderConcurrentSends ==
  \A q \in Procs : \A p \in Other(q) :
    (pc[q] = "c_commit"
       /\ loc[p].op = "send" /\ pc[p] = "done"
       /\ loc[p].resp.status = 200
       /\ loc[p].phone = loc[q].phone) =>
      \A i \in issued[loc[q].phone] :
        Apart(tx[q].now, i.created_at) >= WindowSeconds * TicksPerSecond

\* The account slot p found holds the password p drew.
HoldsCredential(p) ==
  \E u \in users : u.id \in loc[p].existing /\ u.password = loc[p].pw

\* C32 (overlapping requests): once the password a verify request drew is
\* the credential of the account it found, it stays the credential while
\* the request waits to sign in with it.
CredentialHandshake ==
  [][\A p \in Procs :
       (pc[p] = "sign_in" /\ HoldsCredential(p) /\ pc'[p] = "sign_in") =>
         HoldsCredential(p)']_vars

\* The rows with expires_at < t.
ExpiredAt(rows, t) == {r \in rows : r.expires_at < t}

\* C33 (overlapping requests and sweeps over two phones):
\* cleanup_expired_otps selects every stored row, of any phone, with
\* expires_at < NOW() and no other; it deletes those of them that are still
\* stored, returns their number, and leaves every other row as it was; and
\* a phone whose record the sweep removed last had its issued record
\* expired, so no unexpired record is lost to it.
SweepFrame ==
  /\ [](/\ \A p \in Procs :
            pc[p] = "s_commit" =>
              /\ \A r \in otp_storage :
                   r.id \in tx[p].del => r.expires_at < tx[p].now
              /\ \A r \in otp_storage :
                   r.expires_at >= tx[p].now => r \in Committed(p)
              /\ Committed(p) \subseteq otp_storage
        /\ \A ph \in Phones :
            last[ph].op = "sweep" =>
              \A i \in issued[ph] :
                i.created_at + ExpiryMinutes * 60 * TicksPerSecond < now)
  /\ [][\A p \in Procs :
         /\ (pc[p] = "s_scan" /\ pc'[p] = "s_delete") =>
              tx'[p].targets = RowIds(ExpiredAt(otp_storage, tx[p].now))
         /\ (pc[p] = "s_delete" /\ pc'[p] = "s_commit") =>
              tx'[p].del = tx[p].targets \cap RowIds(otp_storage)
         /\ (pc[p] = "s_commit" /\ pc'[p] = "done") =>
              /\ otp_storage' = {r \in otp_storage : r.id \notin tx[p].del}
              /\ loc'[p].result.n = Cardinality(otp_storage \ otp_storage')]_vars

\* A sweep is about to commit the deletion of one phone's expired record
\* while the other phone holds an unexpired one.
SweepFrameWitness ==
  \E p \in Procs :
    /\ pc[p] = "s_commit"
    /\ \E r \in otp_storage : r.id \in tx[p].del
    /\ \E r \in otp_storage :
         r.expires_at >= tx[p].now /\ r.id \notin tx[p].del

====
